---- MODULE Spec2Model ----
(***************************************************************************)
(* Training Job Orchestrator of the voice-enrollment service               *)
(* (backend/services/voice-enrollment/cnv-trainer.py, CNVTrainingService). *)
(*                                                                         *)
(* The persisted job records live in the storage collaborator; every       *)
(* coroutine (create_training_job, cancel_training_job, the monitor task)  *)
(* works on its own copy of a record and writes the whole copy back.  The  *)
(* coroutines interleave at the awaits on the storage collaborator; the    *)
(* remote calls use the blocking requests library and do not yield.        *)
(*                                                                         *)
(* The pipeline in front of the orchestrator is modelled next to it: the   *)
(* audio quality gate and the chunker of audio-processor.py and the        *)
(* alignment scorer of speech-to-text.py.  They are pure: each one is a    *)
(* call with its inputs, run to its result.                                *)
(***************************************************************************)
EXTENDS Integers, Sequences, FiniteSets, TLC

\* ------------------------------------------------------------------------
\* Bounds of the model
\* ------------------------------------------------------------------------
MaxCount == 4      \* audio files / transcriptions per request: 0..MaxCount
MaxPolls == 2      \* remote status polls one monitor task makes (and are counted)
MaxCancels == 1    \* cancel_training_job calls issued
MaxSamples == 12   \* samples of a recording handed to chunk_audio: 0..MaxSamples
MaxChunkSamples == 6  \* chunk_samples of a chunk_audio call: 1..MaxChunkSamples
MaxWords == 5      \* words with timings of one transcription: 1..MaxWords

JobIds == {"j1"}                \* uuid4 values handed out by create_training_job
Users == {"u1", "u2"}
CancelCalls == 1..MaxCancels
Counts == 0..MaxCount
\* TrainingConfig.min_utterances / max_utterances of the requests
Configs == {[min_utterances |-> 2, max_utterances |-> 3]}

None == "None"       \* Python None of a string-valued field
NoTime == 0          \* Python None of a datetime field; the clock starts at 1
AzureJobId == "h1"   \* last path segment of the Location header
NoRecord == [status |-> "absent"]   \* storage holds nothing under the job_id

\* ------------------------------------------------------------------------
\* TrainingStatus and the remote status vocabulary
\* ------------------------------------------------------------------------
PENDING == "pending"
SUBMITTED == "submitted"
RUNNING == "running"
SUCCEEDED == "succeeded"
FAILED == "failed"
CANCELLED == "cancelled"
TIMEOUT == "timeout"

TrainingStatus == {PENDING, SUBMITTED, RUNNING, SUCCEEDED, FAILED, CANCELLED, TIMEOUT}
TerminalStatus == {SUCCEEDED, FAILED, CANCELLED, TIMEOUT}

\* "Bogus" stands for every value outside the known vocabulary, "Missing"
\* for a response body without a status key (job_data.get("status", "Unknown")).
AzureStatuses == {"NotStarted", "Running", "Succeeded", "Failed", "Cancelled", "Bogus", "Missing"}

ProgressValues == {50}          \* job_data["progress"] when the key is present
NoProgress == -1                \* the key is absent

VARIABLES
    validation_awaited, \* whether the result of _validate_training_inputs is a tuple
    store,              \* storage collaborator: job_id -> persisted record
    create,             \* create_training_job call per job_id
    monitor,            \* monitor task per job_id
    cancel,             \* cancel_training_job calls
    clock,              \* datetime.utcnow(), one tick per reading
    remote,             \* calls made to the remote training service per job_id
    notified,           \* notifications sent per job_id and kind
    analysis,           \* one AudioProcessor.process_audio call
    chunking,           \* one AudioProcessor.chunk_audio call
    alignment           \* one SpeechToTextService.create_text_alignment call

\* The calls of the pipeline in front of the orchestrator
pipeline == <<analysis, chunking, alignment>>

vars == <<validation_awaited, store, create, monitor, cancel, clock, remote, notified,
          analysis, chunking, alignment>>

\* ------------------------------------------------------------------------
\* _map_azure_status
\* ------------------------------------------------------------------------
\* Line 471 with the wrong member of TrainingStatus
MapAzureStatusSucceededAsRunning(azure_status) ==
    CASE azure_status = "NotStarted" -> PENDING
      [] azure_status = "Running" -> RUNNING
      [] azure_status = "Succeeded" -> RUNNING
      [] azure_status = "Failed" -> FAILED
      [] azure_status = "Cancelled" -> CANCELLED
      [] OTHER -> PENDING

MapAzureStatus(azure_status) ==
    CASE azure_status = "NotStarted" -> PENDING
      [] azure_status = "Running" -> RUNNING
      [] azure_status = "Succeeded" -> SUCCEEDED
      [] azure_status = "Failed" -> FAILED
      [] azure_status = "Cancelled" -> CANCELLED
      [] OTHER -> PENDING

\* ------------------------------------------------------------------------
\* _validate_training_inputs: the first violated condition only
\* ------------------------------------------------------------------------
\* A message with the two numbers it is formatted with
Message(text, x, y) == [text |-> text, x |-> x, y |-> y]
NoMessage == Message("", 0, 0)

ValidateTrainingInputs(a, t, cfg, audioOk, transOk) ==
    IF a < cfg.min_utterances
    THEN <<FALSE, Message("Insufficient audio files: x < y", a, cfg.min_utterances)>>
    ELSE IF a > cfg.max_utterances
    THEN <<FALSE, Message("Too many audio files: x > y", a, cfg.max_utterances)>>
    ELSE IF a # t
    THEN <<FALSE, Message("Audio file count (x) doesn't match transcription count (y)", a, t)>>
    ELSE IF ~audioOk
    THEN <<FALSE, Message("Invalid audio file", 0, 0)>>
    ELSE IF ~transOk
    THEN <<FALSE, Message("Invalid transcription file", 0, 0)>>
    ELSE <<TRUE, NoMessage>>

\* The TrainingJob built by create_training_job (lines 121-142).  voice_name,
\* training_type, created_at, audio_files and transcriptions are set here and
\* assigned nowhere else; the model keeps the utterance count for them.
NewTrainingJob(u, a) ==
    [user_id |-> u,
     status |-> PENDING,
     started_at |-> NoTime,
     completed_at |-> NoTime,
     progress_percentage |-> 0,
     model_id |-> None,
     voice_id |-> None,
     error_message |-> None,
     azure_job_id |-> None,
     total_utterances |-> a]

\* A create_training_job call that has not been made yet
IdleCreate ==
    [pc |-> "idle", user_id |-> None, audio |-> 0, trans |-> 0,
     config |-> [min_utterances |-> 0, max_utterances |-> 0],
     submission |-> None, job |-> NoRecord, exception |-> None, message |-> NoMessage]
\* A cancel_training_job call that has not been made yet
IdleCancel ==
    [pc |-> "idle", job_id |-> None, user_id |-> None,
     job |-> NoRecord, stored |-> NoRecord, result |-> None]
\* What the monitor task met at its last status call: how the call ended
\* and the status of the body
Answer(job_data) == [kind |-> job_data.kind, status |-> job_data.status]
\* No status call has been made yet, or the last iteration made none
NoAnswer == [kind |-> "none", status |-> "Missing"]
\* No monitor task exists for the job
NoMonitor == [pc |-> "none", polls |-> 0, job |-> NoRecord, answer |-> NoAnswer]
NoRemote == [submit |-> 0, status |-> 0, cancel |-> 0]
NoNotifications == [completed |-> 0, failed |-> 0, cancelled |-> 0]

\* No call of the pipeline has been made
NoCall == [pc |-> "none"]

PipelineIdle ==
    /\ analysis = NoCall
    /\ chunking = NoCall
    /\ alignment = NoCall

\* The orchestrator after construction
TrainerInit ==
    /\ validation_awaited \in BOOLEAN
    /\ store = [j \in JobIds |-> NoRecord]
    /\ create = [j \in JobIds |-> IdleCreate]
    /\ monitor = [j \in JobIds |-> NoMonitor]
    /\ cancel = [c \in CancelCalls |-> IdleCancel]
    /\ clock = 1
    /\ remote = [j \in JobIds |-> NoRemote]
    /\ notified = [j \in JobIds |-> NoNotifications]

Init ==
    /\ TrainerInit
    /\ PipelineIdle

\* ------------------------------------------------------------------------
\* create_training_job
\* ------------------------------------------------------------------------

\* Lines 107-145 and 168-170.  The call at line 109 is not awaited: what line
\* 113 subscripts is the coroutine object, and the subscript raises TypeError
\* for every input (validation_awaited = FALSE, the source as written).  With
\* the call awaited the tuple of _validate_training_inputs decides.  Either
\* exception is logged and re-raised by the handler at lines 168-170; nothing
\* has been stored and no remote call has been made at that point.  The
\* ValueError of line 114 carries the validation message after the prefix
\* "Training validation failed: ".
CreateTrainingJob(j, u, a, t, cfg, audioOk, transOk) ==
    LET validation_result == ValidateTrainingInputs(a, t, cfg, audioOk, transOk)
        call == [create[j] EXCEPT !.user_id = u, !.audio = a, !.trans = t, !.config = cfg]
        training_job == NewTrainingJob(u, a)
    IN  /\ create[j].pc = "idle"
        /\ IF ~validation_awaited
           THEN /\ create' = [create EXCEPT ![j] =
                        [call EXCEPT !.pc = "raised", !.exception = "TypeError",
                                     !.message = Message("'coroutine' object is not subscriptable", 0, 0)]]
                /\ UNCHANGED store
           ELSE IF ~validation_result[1]
           THEN /\ create' = [create EXCEPT ![j] =
                        [call EXCEPT !.pc = "raised", !.exception = "ValueError",
                                     !.message = validation_result[2]]]
                /\ UNCHANGED store
           ELSE /\ store' = [store EXCEPT ![j] = training_job]
                /\ create' = [create EXCEPT ![j] =
                        [call EXCEPT !.pc = "submit", !.job = training_job]]
        /\ UNCHANGED <<pipeline, validation_awaited, monitor, cancel, clock, remote, notified>>

\* What _submit_to_azure_speech can meet (lines 283-328): 202 with a Location
\* header, 202 without one, any other status code, an exception.
SubmitOutcomes == {"accepted", "accepted_no_location", "error_status", "exception"}

\* _submit_to_azure_speech taking every 202 for a handle (line 316 left out)
SubmitToAzureSpeechAny202(outcome) ==
    IF outcome \in {"accepted", "accepted_no_location"} THEN AzureJobId ELSE None

\* _submit_to_azure_speech: the remote job handle, or None
SubmitToAzureSpeech(outcome) ==
    IF outcome = "accepted" THEN AzureJobId ELSE None

\* Lines 148-153 and 159-166: submission and the store of its result
\* Variant of lines 148-158: the result of the submission is not tested
CreateSubmitUnchecked(j, outcome) ==
    LET submission_result == SubmitToAzureSpeech(outcome)
        training_job ==
            [create[j].job EXCEPT !.status = SUBMITTED, !.azure_job_id = submission_result]
    IN  /\ create[j].pc = "submit"
        /\ remote' = [remote EXCEPT ![j].submit = @ + 1]
        /\ store' = [store EXCEPT ![j] = training_job]
        /\ create' = [create EXCEPT ![j] =
                [@ EXCEPT !.job = training_job, !.submission = outcome, !.pc = "spawn"]]
        /\ UNCHANGED <<pipeline, validation_awaited, monitor, cancel, clock, notified>>

CreateSubmit(j, outcome) ==
    LET submission_result == SubmitToAzureSpeech(outcome)
        training_job ==
            IF submission_result # None
            THEN [create[j].job EXCEPT !.status = SUBMITTED, !.azure_job_id = submission_result]
            ELSE [create[j].job EXCEPT !.status = FAILED,
                                       !.error_message = "Failed to submit to Azure Speech Service"]
    IN  /\ create[j].pc = "submit"
        /\ remote' = [remote EXCEPT ![j].submit = @ + 1]
        /\ store' = [store EXCEPT ![j] = training_job]
        /\ create' = [create EXCEPT ![j] =
                [@ EXCEPT !.job = training_job, !.submission = outcome,
                          !.pc = IF submission_result # None THEN "spawn" ELSE "returned"]]
        /\ UNCHANGED <<pipeline, validation_awaited, monitor, cancel, clock, notified>>

\* Lines 155-158 and 166: asyncio.create_task(_monitor_training_job(job_id)),
\* reached once the await of the store at line 153 has returned
CreateStartMonitor(j) ==
    /\ create[j].pc = "spawn"
    /\ monitor' = [monitor EXCEPT ![j] = [NoMonitor EXCEPT !.pc = "read"]]
    /\ create' = [create EXCEPT ![j].pc = "returned"]
    /\ UNCHANGED <<pipeline, validation_awaited, store, cancel, clock, remote, notified>>

\* ------------------------------------------------------------------------
\* The monitor task: _monitor_training_job and _update_job_progress
\* ------------------------------------------------------------------------

\* Line 406 without cancelled
CompleteStatusesNoCancelled == {SUCCEEDED, FAILED}

\* Line 406: the statuses on which the loop ends
CompleteStatuses == {SUCCEEDED, FAILED, CANCELLED}

\* Lines 398-408: read the record; leave the loop when there is none or when
\* its status is succeeded, failed or cancelled
MonitorRead(j) ==
    LET training_job == store[j]
    IN  /\ monitor[j].pc = "read"
        /\ monitor' = [monitor EXCEPT ![j] =
                IF training_job = NoRecord
                THEN [@ EXCEPT !.pc = "exited", !.job = training_job]
                ELSE IF training_job.status \in CompleteStatuses
                THEN [@ EXCEPT !.pc = "exited", !.job = training_job]
                ELSE [@ EXCEPT !.pc = "poll", !.job = training_job]]
        /\ UNCHANGED <<pipeline, validation_awaited, store, create, cancel, clock, remote, notified>>

\* Lines 399 and 416-417: the read of the record raises; the handler logs the
\* error and the task ends
\* Variant: an error raised in one monitor task ends every monitor task
MonitorReadRaisesEndsAll(j) ==
    /\ monitor[j].pc = "read"
    /\ monitor' = [k \in DOMAIN monitor |->
            IF monitor[k].pc \in {"read", "poll"}
            THEN [monitor[k] EXCEPT !.pc = "crashed"]
            ELSE monitor[k]]
    /\ UNCHANGED <<pipeline, validation_awaited, store, create, cancel, clock, remote, notified>>

MonitorReadRaises(j) ==
    /\ monitor[j].pc = "read"
    /\ monitor' = [monitor EXCEPT ![j].pc = "crashed"]
    /\ UNCHANGED <<pipeline, validation_awaited, store, create, cancel, clock, remote, notified>>

\* What the status call of line 428 can bring: an exception, a status code
\* other than 200, or a body {status?, progress?, modelId?, voiceId?}
PollResponses ==
    {[kind |-> k, status |-> "Missing", progress |-> NoProgress, modelId |-> None, voiceId |-> None] :
        k \in {"exception", "http_error"}}
    \cup
    {[kind |-> "ok", status |-> s, progress |-> p, modelId |-> None, voiceId |-> None] :
        s \in AzureStatuses, p \in ProgressValues \cup {NoProgress}}
    \cup
    {[kind |-> "ok", status |-> "Succeeded", progress |-> p, modelId |-> "m1", voiceId |-> "v1"] :
        p \in ProgressValues \cup {NoProgress}}

\* Lines 433-451: the changes _update_job_progress makes to its copy of the
\* record for a 200 response
UpdatedJob(training_job, job_data, now) ==
    LET azure_status == IF job_data.status = "Missing" THEN "Unknown" ELSE job_data.status
    IN  [training_job EXCEPT
            !.status = MapAzureStatus(azure_status),
            !.progress_percentage =
                IF job_data.progress # NoProgress THEN job_data.progress ELSE @,
            !.started_at =
                IF azure_status = "Running" /\ @ = NoTime THEN now ELSE @,
            !.completed_at =
                IF azure_status \in {"Succeeded", "Failed"} /\ @ = NoTime THEN now ELSE @,
            !.model_id = IF azure_status = "Succeeded" THEN job_data.modelId ELSE @,
            !.voice_id = IF azure_status = "Succeeded" THEN job_data.voiceId ELSE @]

\* Lines 456-461: the notification _update_job_progress sends for a status
NotifyAfterUpdate(n, status) ==
    IF status = SUCCEEDED THEN [n EXCEPT !.completed = @ + 1]
    ELSE IF status = FAILED THEN [n EXCEPT !.failed = @ + 1]
    ELSE n

\* Line 430 taking every answered request for a success
PollSucceededAnyStatusCode(job_data) == job_data.kind # "exception"

\* Lines 428-430: the status call returned and its status code is 200
PollSucceeded(job_data) == job_data.kind = "ok"

\* Lines 411-414 and 419-464: one _update_job_progress on the copy read by
\* MonitorRead, then the sleep; polls is the number of polls made after it.
\* The notification changes nothing that any coroutine reads, so it is
\* taken in the same step as the store.
UpdateJobProgress(j, job_data, polls) ==
    LET training_job == monitor[j].job
        updated == UpdatedJob(training_job, job_data, clock)
    IN  /\ monitor[j].pc = "poll"
        /\ IF training_job.azure_job_id = None
           THEN /\ monitor' = [monitor EXCEPT ![j].pc = "read", ![j].polls = polls,
                                               ![j].answer = NoAnswer]
                /\ UNCHANGED <<store, clock, remote, notified>>
           ELSE IF ~PollSucceeded(job_data)
           THEN /\ monitor' = [monitor EXCEPT ![j].pc = "read", ![j].polls = polls,
                                               ![j].answer = Answer(job_data)]
                /\ remote' = [remote EXCEPT ![j].status = IF @ < MaxPolls THEN @ + 1 ELSE @]
                /\ UNCHANGED <<store, clock, notified>>
           ELSE /\ monitor' = [monitor EXCEPT ![j].pc = "read", ![j].polls = polls,
                                               ![j].job = updated, ![j].answer = Answer(job_data)]
                /\ remote' = [remote EXCEPT ![j].status = IF @ < MaxPolls THEN @ + 1 ELSE @]
                /\ store' = [store EXCEPT ![j] = updated]
                /\ clock' = IF updated.started_at # training_job.started_at
                               \/ updated.completed_at # training_job.completed_at
                            THEN clock + 1 ELSE clock
                /\ notified' = [notified EXCEPT ![j] = NotifyAfterUpdate(@, updated.status)]
        /\ UNCHANGED <<pipeline, validation_awaited, create, cancel>>

\* One iteration of the loop of lines 398-414, at most MaxPolls of them
MonitorPoll(j, job_data) ==
    /\ monitor[j].polls < MaxPolls
    /\ UpdateJobProgress(j, job_data, monitor[j].polls + 1)

\* One iteration of the loop of lines 398-414, with no limit on their number
MonitorPollOn(j, job_data) == UpdateJobProgress(j, job_data, monitor[j].polls)

\* ------------------------------------------------------------------------
\* cancel_training_job
\* ------------------------------------------------------------------------

\* Line 192: the call reads the record (None when storage has none)
CancelRead(c, j, u) ==
    /\ cancel[c].pc = "idle"
    /\ cancel' = [cancel EXCEPT ![c] =
            [@ EXCEPT !.pc = "read", !.job_id = j, !.user_id = u, !.job = store[j]]]
    /\ UNCHANGED <<pipeline, validation_awaited, store, create, monitor, clock, remote, notified>>

\* Line 202 with succeeded taken for cancellable
CancellableWithSucceeded == {PENDING, SUBMITTED, RUNNING, SUCCEEDED}

\* Line 202: the statuses a job can be cancelled in
Cancellable == {PENDING, SUBMITTED, RUNNING}

\* Lines 194-204 without the owner check of line 198
CancelRejectedNoOwnerCheck(training_job, user_id) ==
    \/ training_job = NoRecord
    \/ training_job.status \notin Cancellable

\* Lines 194-204: the three rejections
CancelRejected(training_job, user_id) ==
    \/ training_job = NoRecord
    \/ training_job.user_id # user_id
    \/ training_job.status \notin Cancellable

\* Lines 206-210: whether _cancel_azure_job is called
CancelsInAzure(training_job) ==
    /\ training_job.status \in {SUBMITTED, RUNNING}
    /\ training_job.azure_job_id # None

\* Lines 212-214 without the stamp of completed_at
CancelledJobNoStamp(training_job, now) ==
    [training_job EXCEPT !.status = CANCELLED]

\* Lines 212-214: the record cancel_training_job stores
CancelledJob(training_job, now) ==
    [training_job EXCEPT !.status = CANCELLED, !.completed_at = now]

\* Lines 194-222 on the copy read by CancelRead.  The result of
\* _cancel_azure_job is not looked at.  The notification changes nothing
\* that any coroutine reads, so it is taken in the same step as the store.
CancelFinish(c) ==
    LET training_job == cancel[c].job
        j == cancel[c].job_id
        cancelled == CancelledJob(training_job, clock)
    IN  /\ cancel[c].pc = "read"
        /\ IF CancelRejected(training_job, cancel[c].user_id)
           THEN /\ cancel' = [cancel EXCEPT ![c].pc = "returned", ![c].result = "False"]
                /\ UNCHANGED <<store, clock, remote, notified>>
           ELSE /\ remote' = [remote EXCEPT ![j].cancel =
                                IF CancelsInAzure(training_job) THEN @ + 1 ELSE @]
                /\ store' = [store EXCEPT ![j] = cancelled]
                /\ clock' = clock + 1
                /\ notified' = [notified EXCEPT ![j].cancelled = @ + 1]
                /\ cancel' = [cancel EXCEPT ![c].pc = "returned", ![c].result = "True",
                                             ![c].stored = cancelled]
        /\ UNCHANGED <<pipeline, validation_awaited, create, monitor>>

\* ------------------------------------------------------------------------
\* The service
\* ------------------------------------------------------------------------
Next ==
    \/ \E j \in JobIds, u \in Users, a \in Counts, t \in Counts, cfg \in Configs,
          audioOk \in BOOLEAN, transOk \in BOOLEAN :
            CreateTrainingJob(j, u, a, t, cfg, audioOk, transOk)
    \/ \E j \in JobIds, outcome \in SubmitOutcomes : CreateSubmit(j, outcome)
    \/ \E j \in JobIds : CreateStartMonitor(j)
    \/ \E j \in JobIds : MonitorRead(j)
    \/ \E j \in JobIds : MonitorReadRaises(j)
    \/ \E j \in JobIds, job_data \in PollResponses : MonitorPoll(j, job_data)
    \/ \E c \in CancelCalls, j \in JobIds, u \in Users : CancelRead(c, j, u)
    \/ \E c \in CancelCalls : CancelFinish(c)

Spec == Init /\ [][Next]_vars

\* The service with monitor loops that run for as long as the code lets them
NextLive ==
    \/ \E j \in JobIds, u \in Users, a \in Counts, t \in Counts, cfg \in Configs,
          audioOk \in BOOLEAN, transOk \in BOOLEAN :
            CreateTrainingJob(j, u, a, t, cfg, audioOk, transOk)
    \/ \E j \in JobIds, outcome \in SubmitOutcomes : CreateSubmit(j, outcome)
    \/ \E j \in JobIds : CreateStartMonitor(j)
    \/ \E j \in JobIds : MonitorRead(j)
    \/ \E j \in JobIds : MonitorReadRaises(j)
    \/ \E j \in JobIds, job_data \in PollResponses : MonitorPollOn(j, job_data)
    \/ \E c \in CancelCalls, j \in JobIds, u \in Users : CancelRead(c, j, u)
    \/ \E c \in CancelCalls : CancelFinish(c)

\* The event loop resumes a monitor task whose await (the read of the record,
\* the sleep of line 414) has completed; what the remote service answers is
\* not constrained.
LiveSpec ==
    /\ Init
    /\ [][NextLive]_vars
    /\ \A j \in JobIds :
          /\ WF_vars(MonitorRead(j))
          /\ WF_vars(\E job_data \in PollResponses : MonitorPollOn(j, job_data))

\* ------------------------------------------------------------------------
\* cancel_training_job with collaborators that raise.  Every exception ends
\* in the handler of lines 224-226, which returns False.  An exception of
\* the remote call is caught inside _cancel_azure_job (line 486) and its
\* result is not looked at, so it is no different from any other answer.
\* ------------------------------------------------------------------------
\* storage_client.get_training_job raises at line 192
CancelReadRaises(c, j, u) ==
    /\ cancel[c].pc = "idle"
    /\ cancel' = [cancel EXCEPT ![c] =
            [@ EXCEPT !.pc = "returned", !.job_id = j, !.user_id = u, !.result = "False"]]
    /\ UNCHANGED <<pipeline, validation_awaited, store, create, monitor, clock, remote, notified>>

\* storage_client.store_training_job raises at line 215, after the remote
\* cancellation and the reading of the clock
CancelStoreRaises(c) ==
    LET training_job == cancel[c].job
        j == cancel[c].job_id
    IN  /\ cancel[c].pc = "read"
        /\ ~CancelRejected(training_job, cancel[c].user_id)
        /\ remote' = [remote EXCEPT ![j].cancel =
                            IF CancelsInAzure(training_job) THEN @ + 1 ELSE @]
        /\ clock' = clock + 1
        /\ cancel' = [cancel EXCEPT ![c].pc = "returned", ![c].result = "False"]
        /\ UNCHANGED <<pipeline, validation_awaited, store, create, monitor, notified>>

\* notification_service.send_training_cancelled_notification raises at
\* line 219, after the store of line 215
CancelNotifyRaises(c) ==
    LET training_job == cancel[c].job
        j == cancel[c].job_id
        cancelled == CancelledJob(training_job, clock)
    IN  /\ cancel[c].pc = "read"
        /\ ~CancelRejected(training_job, cancel[c].user_id)
        /\ remote' = [remote EXCEPT ![j].cancel =
                            IF CancelsInAzure(training_job) THEN @ + 1 ELSE @]
        /\ store' = [store EXCEPT ![j] = cancelled]
        /\ clock' = clock + 1
        /\ cancel' = [cancel EXCEPT ![c].pc = "returned", ![c].result = "False",
                                     ![c].stored = cancelled]
        /\ UNCHANGED <<pipeline, validation_awaited, create, monitor, notified>>

\* The service with storage and notification collaborators that can raise
\* inside cancel_training_job
NextCancelFaults ==
    \/ \E j \in JobIds, u \in Users, a \in Counts, t \in Counts, cfg \in Configs,
          audioOk \in BOOLEAN, transOk \in BOOLEAN :
            CreateTrainingJob(j, u, a, t, cfg, audioOk, transOk)
    \/ \E j \in JobIds, outcome \in SubmitOutcomes : CreateSubmit(j, outcome)
    \/ \E j \in JobIds : CreateStartMonitor(j)
    \/ \E j \in JobIds : MonitorRead(j)
    \/ \E j \in JobIds : MonitorReadRaises(j)
    \/ \E j \in JobIds, job_data \in PollResponses : MonitorPoll(j, job_data)
    \/ \E c \in CancelCalls, j \in JobIds, u \in Users : CancelRead(c, j, u)
    \/ \E c \in CancelCalls : CancelFinish(c)
    \/ \E c \in CancelCalls, j \in JobIds, u \in Users : CancelReadRaises(c, j, u)
    \/ \E c \in CancelCalls : CancelStoreRaises(c)
    \/ \E c \in CancelCalls : CancelNotifyRaises(c)

SpecCancelFaults == Init /\ [][NextCancelFaults]_vars

\* Two jobs of one service instance: uuid4 (line 117) gives each
\* create_training_job call its own job_id
TwoJobs == {"j1", "j2"}

\* The submission outcomes of the two-job service: accepted, or the request
\* raising
TwoJobsSubmitOutcomes == {"accepted", "exception"}

\* The status answers of the two-job service: the call raising, an error
\* status code, and 200 with Failed
TwoJobsPollResponses ==
    {job_data \in PollResponses :
        /\ job_data.progress = NoProgress
        /\ \/ job_data.kind \in {"exception", "http_error"}
           \/ job_data.kind = "ok" /\ job_data.status = "Failed"}

\* The service after construction, about to be asked for two jobs
InitTwoJobs ==
    /\ validation_awaited \in BOOLEAN
    /\ store = [j \in TwoJobs |-> NoRecord]
    /\ create = [j \in TwoJobs |-> IdleCreate]
    /\ monitor = [j \in TwoJobs |-> NoMonitor]
    /\ cancel = [c \in CancelCalls |-> IdleCancel]
    /\ clock = 1
    /\ remote = [j \in TwoJobs |-> NoRemote]
    /\ notified = [j \in TwoJobs |-> NoNotifications]
    /\ PipelineIdle

\* The operations of the service on two jobs of one user, created from
\* valid inputs
NextTwoJobs ==
    \/ \E j \in TwoJobs, cfg \in Configs :
            CreateTrainingJob(j, "u1", cfg.min_utterances, cfg.min_utterances, cfg, TRUE, TRUE)
    \/ \E j \in TwoJobs, outcome \in TwoJobsSubmitOutcomes : CreateSubmit(j, outcome)
    \/ \E j \in TwoJobs : CreateStartMonitor(j)
    \/ \E j \in TwoJobs : MonitorRead(j)
    \/ \E j \in TwoJobs : MonitorReadRaises(j)
    \/ \E j \in TwoJobs, job_data \in TwoJobsPollResponses : MonitorPoll(j, job_data)
    \/ \E c \in CancelCalls, j \in TwoJobs : CancelRead(c, j, "u1")
    \/ \E c \in CancelCalls : CancelFinish(c)

SpecTwoJobs == InitTwoJobs /\ [][NextTwoJobs]_vars

\* ------------------------------------------------------------------------
\* AudioProcessor: quality metrics and the acceptance gate
\* (backend/services/voice-enrollment/audio-processor.py)
\* ------------------------------------------------------------------------
Min(x, y) == IF x <= y THEN x ELSE y
Max(x, y) == IF x >= y THEN x ELSE y

\* AudioProcessor.__init__ with an empty config: the defaults
min_duration == 1      \* seconds
max_duration == 30     \* seconds
min_snr == 15          \* dB
max_clipping == 5      \* percent
min_silence == 10      \* percent; used as the upper limit of silence

\* The measurements the analysed buffers have: durations in seconds, SNR in
\* dB (0 and up: the signal power is never below the variance), clipping
\* and silence in percent of the samples
Durations == {0, 1, 4, 5, 6, 15, 16, 30, 31}
SnrValues == {0, 9, 10, 14, 15, 20, 29, 30, 31, 45}
ClippingValues == {0, 1, 4, 5, 6, 100}
SilenceValues == {0, 2, 9, 10, 11, 100}

EXCELLENT == "excellent"
GOOD == "good"
ACCEPTABLE == "acceptable"
POOR == "poor"
REJECTED == "rejected"

\* Line 293 without the cap of 40 points
CalculateQualityScoreSnrUncapped(snr_db, clipping_percentage, silence_percentage, duration) ==
    LET snr_score == Max(0, (snr_db - 10) * 2)
        clipping_score == Max(0, 25 - clipping_percentage * 5)
        silence_score == Max(0, 20 - silence_percentage * 2)
        duration_score ==
            IF 5 <= duration /\ duration <= 15 THEN 15
            ELSE IF (1 <= duration /\ duration < 5) \/ (15 < duration /\ duration <= 30) THEN 10
            ELSE 5
    IN  snr_score + clipping_score + silence_score + duration_score

CalculateQualityScore(snr_db, clipping_percentage, silence_percentage, duration) ==
    LET snr_score == Min(40, Max(0, (snr_db - 10) * 2))
        clipping_score == Max(0, 25 - clipping_percentage * 5)
        silence_score == Max(0, 20 - silence_percentage * 2)
        duration_score ==
            IF 5 <= duration /\ duration <= 15 THEN 15
            ELSE IF (1 <= duration /\ duration < 5) \/ (15 < duration /\ duration <= 30) THEN 10
            ELSE 5
    IN  snr_score + clipping_score + silence_score + duration_score

\* Lines 314-317 with every threshold ten points lower
DetermineQualityLevelTenLower(quality_score) ==
    IF quality_score >= 80 THEN EXCELLENT
    ELSE IF quality_score >= 70 THEN GOOD
    ELSE IF quality_score >= 60 THEN ACCEPTABLE
    ELSE IF quality_score >= 50 THEN POOR
    ELSE REJECTED

DetermineQualityLevel(quality_score) ==
    IF quality_score >= 90 THEN EXCELLENT
    ELSE IF quality_score >= 80 THEN GOOD
    ELSE IF quality_score >= 70 THEN ACCEPTABLE
    ELSE IF quality_score >= 60 THEN POOR
    ELSE REJECTED

\* The AudioMetrics fields the gate and the score read
CalculateAudioMetrics(duration, snr_db, clipping_percentage, silence_percentage) ==
    LET quality_score ==
            CalculateQualityScore(snr_db, clipping_percentage, silence_percentage, duration)
    IN  [duration |-> duration, snr_db |-> snr_db,
         clipping_percentage |-> clipping_percentage,
         silence_percentage |-> silence_percentage,
         quality_score |-> quality_score,
         quality_level |-> DetermineQualityLevel(quality_score)]

\* errors.append(...) when the condition holds
Append1(errors, condition, reason) == IF condition THEN Append(errors, reason) ELSE errors

\* Variant: the gate reports the first violated condition only
ValidateAudioQualityFirstOnly(metrics) ==
    IF metrics.duration < min_duration THEN <<"too_short">>
    ELSE IF metrics.duration > max_duration THEN <<"too_long">>
    ELSE IF metrics.snr_db < min_snr THEN <<"snr_too_low">>
    ELSE IF metrics.clipping_percentage > max_clipping THEN <<"too_much_clipping">>
    ELSE IF metrics.silence_percentage > min_silence THEN <<"too_much_silence">>
    ELSE IF metrics.quality_score < 60 THEN <<"quality_score_too_low">>
    ELSE <<>>

\* The list `errors` of _validate_audio_quality; is_valid is len(errors) == 0
\* and error_message joins the list with "; "
ValidateAudioQuality(metrics) ==
    LET e1 == Append1(<<>>, metrics.duration < min_duration, "too_short")
        e2 == Append1(e1, metrics.duration > max_duration, "too_long")
        e3 == Append1(e2, metrics.snr_db < min_snr, "snr_too_low")
        e4 == Append1(e3, metrics.clipping_percentage > max_clipping, "too_much_clipping")
        e5 == Append1(e4, metrics.silence_percentage > min_silence, "too_much_silence")
        e6 == Append1(e5, metrics.quality_score < 60, "quality_score_too_low")
    IN  e6

\* process_audio, lines 98-99: the metrics of the loaded buffer
AnalysisMetrics(duration, snr_db, clipping_percentage, silence_percentage) ==
    /\ analysis.pc = "call"
    /\ analysis' = [pc |-> "metrics",
                    metrics |-> CalculateAudioMetrics(duration, snr_db, clipping_percentage,
                                                      silence_percentage)]
    /\ UNCHANGED <<validation_awaited, store, create, monitor, cancel, clock, remote, notified,
                   chunking, alignment>>

\* process_audio, lines 101-104: the gate and the return
AnalysisValidate ==
    LET errors == ValidateAudioQuality(analysis.metrics)
    IN  /\ analysis.pc = "metrics"
        /\ analysis' = [pc |-> "returned", metrics |-> analysis.metrics,
                        is_valid |-> (Len(errors) = 0), errors |-> errors]
        /\ UNCHANGED <<validation_awaited, store, create, monitor, cancel, clock, remote,
                       notified, chunking, alignment>>

InitAnalysis ==
    /\ TrainerInit
    /\ validation_awaited = FALSE
    /\ analysis = [pc |-> "call"]
    /\ chunking = NoCall
    /\ alignment = NoCall

NextAnalysis ==
    \/ \E duration \in Durations, snr_db \in SnrValues,
          clipping_percentage \in ClippingValues, silence_percentage \in SilenceValues :
            AnalysisMetrics(duration, snr_db, clipping_percentage, silence_percentage)
    \/ AnalysisValidate

SpecAnalysis == InitAnalysis /\ [][NextAnalysis]_vars

\* ------------------------------------------------------------------------
\* AudioProcessor.chunk_audio.  Positions are in samples; start_time and
\* end_time are the positions divided by the sample rate of the call.
\* ------------------------------------------------------------------------
\* len(audio_data)
SampleCounts == 0..MaxSamples
\* int(chunk_duration * sample_rate)
ChunkSampleCounts == 1..MaxChunkSamples
\* int(overlap * chunk_samples) for 0 <= overlap < 1
OverlapSampleCounts(chunk_samples) == 0..(chunk_samples - 1)

\* Line 163 with the overlap added instead of subtracted
StepSamplesPlusOverlap(chunk_samples, overlap_samples) == chunk_samples + overlap_samples

StepSamples(chunk_samples, overlap_samples) == chunk_samples - overlap_samples

\* Line 171 skipping every window shorter than a whole chunk
SkipsWindowShorterThanChunk(window_samples, chunk_samples) == window_samples < chunk_samples

\* Line 171: the window is too short to be a chunk
SkipsWindow(window_samples, chunk_samples) == window_samples < chunk_samples \div 2

\* Line 193 left out
NextChunkIdStuck(chunk_id) == chunk_id

NextChunkId(chunk_id) == chunk_id + 1

\* chunk_audio is called: lines 161-166
ChunkCall(samples, chunk_samples, overlap_samples) ==
    /\ chunking.pc = "call"
    /\ chunking' = [pc |-> "loop", samples |-> samples, chunk_samples |-> chunk_samples,
                    step_samples |-> StepSamples(chunk_samples, overlap_samples),
                    start_sample |-> 0, chunk_id |-> 0, chunks |-> <<>>]
    /\ UNCHANGED <<validation_awaited, store, create, monitor, cancel, clock, remote, notified,
                   analysis, alignment>>

\* One iteration of the loop of line 168
ChunkIterate ==
    LET start_sample == chunking.start_sample
        end_sample == Min(start_sample + chunking.chunk_samples, chunking.samples)
        chunk == [chunk_id |-> chunking.chunk_id,
                  start_time |-> start_sample, end_time |-> end_sample,
                  duration |-> end_sample - start_sample]
    IN  /\ chunking.pc = "loop"
        /\ start_sample < chunking.samples
        /\ chunking' =
                IF SkipsWindow(end_sample - start_sample, chunking.chunk_samples)
                THEN [chunking EXCEPT !.start_sample = @ + chunking.step_samples]
                ELSE [chunking EXCEPT !.start_sample = @ + chunking.step_samples,
                                      !.chunks = Append(@, chunk),
                                      !.chunk_id = NextChunkId(@)]
        /\ UNCHANGED <<validation_awaited, store, create, monitor, cancel, clock, remote,
                       notified, analysis, alignment>>

\* The range of line 168 is exhausted: line 195
ChunkReturn ==
    /\ chunking.pc = "loop"
    /\ chunking.start_sample >= chunking.samples
    /\ chunking' = [chunking EXCEPT !.pc = "returned"]
    /\ UNCHANGED <<validation_awaited, store, create, monitor, cancel, clock, remote, notified,
                   analysis, alignment>>

InitChunking ==
    /\ TrainerInit
    /\ validation_awaited = FALSE
    /\ analysis = NoCall
    /\ chunking = [pc |-> "call"]
    /\ alignment = NoCall

NextChunking ==
    \/ \E samples \in SampleCounts, chunk_samples \in ChunkSampleCounts :
          \E overlap_samples \in OverlapSampleCounts(chunk_samples) :
            ChunkCall(samples, chunk_samples, overlap_samples)
    \/ ChunkIterate
    \/ ChunkReturn

SpecChunking == InitChunking /\ [][NextChunking]_vars

\* ------------------------------------------------------------------------
\* SpeechToTextService.create_text_alignment
\* (backend/services/voice-enrollment/speech-to-text.py).  Times are in
\* ticks of 1/60 s, so that the even split of a chunk of whole seconds over
\* up to six words is exact; a score is the fraction num/den.
\* ------------------------------------------------------------------------
TicksPerSecond == 60
HalfSecond == 30                   \* the 0.5 of line 475

\* audio_duration of the call: chunks of 0, 1, 3 and 10 seconds
AudioDurations == {0, 60, 180, 600}
\* TranscriptionResult.confidence, in tenths
Confidences == {0, 5, 9}
\* TranscriptionResult.text, as text.strip().split() sees it
Texts == {<<>>, <<"hello">>, <<"hello", "world">>, <<"one", "two", "three">>}

\* What the recognizer reports per word: Duration / 10000000 (0.1 s, 0.4 s),
\* and the distance from the end of the word before to its Offset (none,
\* 0.5 s, 0.6 s)
WordLengths == {6, 24}
WordGaps == {0, 30, 36}

\* The word_timings list _extract_word_timings builds (lines 304-311)
RECURSIVE WordTimings(_, _, _, _)
WordTimings(lengths, gaps, i, start_time) ==
    IF i > Len(lengths) THEN <<>>
    ELSE <<[word |-> "w", start_time |-> start_time, end_time |-> start_time + lengths[i]]>>
         \o WordTimings(lengths, gaps, i + 1,
                        IF i < Len(lengths) THEN start_time + lengths[i] + gaps[i] ELSE 0)

\* The transcriptions handed to create_text_alignment
Transcriptions ==
    {[text |-> text, confidence |-> confidence, word_timings |-> <<>>] :
        text \in Texts, confidence \in Confidences}
    \cup
    UNION {{[text |-> <<"w">>, confidence |-> confidence,
             word_timings |-> WordTimings(lengths, gaps, 1, 0)] :
                lengths \in [1..n -> WordLengths], gaps \in [1..(n - 1) -> WordGaps],
                confidence \in {9}} : n \in 1..MaxWords}

Fraction(num, den) == [num |-> num, den |-> den]

\* The loop of lines 472-476: the gaps longer than 0.5 s from word i on
RECURSIVE GapsFrom(_, _)
GapsFrom(word_alignments, i) ==
    IF i > Len(word_alignments) THEN 0
    ELSE (IF word_alignments[i].start_time - word_alignments[i - 1].end_time > HalfSecond
          THEN 1 ELSE 0)
         + GapsFrom(word_alignments, i + 1)

\* Line 475 with >= in the place of >
RECURSIVE GapsFromHalfSecondOn(_, _)
GapsFromHalfSecondOn(word_alignments, i) ==
    IF i > Len(word_alignments) THEN 0
    ELSE (IF word_alignments[i].start_time - word_alignments[i - 1].end_time >= HalfSecond
          THEN 1 ELSE 0)
         + GapsFromHalfSecondOn(word_alignments, i + 1)

\* Variant of _calculate_alignment_score counting a gap of exactly 0.5 s
CalculateAlignmentScoreGapFromHalfSecond(word_alignments, audio_duration) ==
    IF word_alignments = <<>> THEN Fraction(0, 1)
    ELSE LET first_word_time == word_alignments[1].start_time
             last_word_time == word_alignments[Len(word_alignments)].end_time
             gaps == GapsFromHalfSecondOn(word_alignments, 2)
         IN  Fraction(Max(0, Min(10 * audio_duration, 10 * (last_word_time - first_word_time))
                                - Min(3, gaps) * audio_duration),
                      10 * audio_duration)

\* _calculate_alignment_score for audio_duration > 0:
\* max(0.0, min(1.0, span / audio_duration) - min(0.3, gaps * 0.1)), with
\* numerator and denominator multiplied by 10 * audio_duration
CalculateAlignmentScore(word_alignments, audio_duration) ==
    IF word_alignments = <<>> THEN Fraction(0, 1)
    ELSE LET first_word_time == word_alignments[1].start_time
             last_word_time == word_alignments[Len(word_alignments)].end_time
             gaps == GapsFrom(word_alignments, 2)
         IN  Fraction(Max(0, Min(10 * audio_duration, 10 * (last_word_time - first_word_time))
                                - Min(3, gaps) * audio_duration),
                      10 * audio_duration)

\* _estimate_word_timings: the even split of the chunk over the words
EstimateWordTimings(text, audio_duration) ==
    IF text = <<>> THEN <<>>
    ELSE LET word_duration == audio_duration \div Len(text)
         IN  [i \in 1..Len(text) |->
                [word |-> text[i], start_time |-> (i - 1) * word_duration,
                 end_time |-> i * word_duration]]

\* alignment_score > 0.8
GreaterThanEightTenths(score) == 10 * score.num > 8 * score.den

\* Variant of line 422: the branch with timings is taken for every
\* transcription
CreateTextAlignmentAlwaysTimed(transcription, audio_duration) ==
    IF audio_duration = 0 /\ transcription.word_timings # <<>>
    THEN [alignment_score |-> Fraction(0, 1), word_alignments |-> <<>>,
          is_aligned |-> FALSE, confidence |-> 0, raised |-> "ZeroDivisionError"]
    ELSE LET alignment_score ==
                 CalculateAlignmentScore(transcription.word_timings, audio_duration)
         IN  [alignment_score |-> alignment_score,
              word_alignments |-> transcription.word_timings,
              is_aligned |-> GreaterThanEightTenths(alignment_score),
              confidence |-> transcription.confidence, raised |-> None]

\* create_text_alignment: the fields of the TextAlignmentResult that depend
\* on the branch taken, and the exception the handler of line 445 caught
CreateTextAlignment(transcription, audio_duration) ==
    IF transcription.word_timings # <<>>
    THEN IF audio_duration = 0
         THEN [alignment_score |-> Fraction(0, 1), word_alignments |-> <<>>,
               is_aligned |-> FALSE, confidence |-> 0, raised |-> "ZeroDivisionError"]
         ELSE LET alignment_score ==
                      CalculateAlignmentScore(transcription.word_timings, audio_duration)
              IN  [alignment_score |-> alignment_score,
                   word_alignments |-> transcription.word_timings,
                   is_aligned |-> GreaterThanEightTenths(alignment_score),
                   confidence |-> transcription.confidence, raised |-> None]
    ELSE [alignment_score |-> Fraction(1, 2),
          word_alignments |-> EstimateWordTimings(transcription.text, audio_duration),
          is_aligned |-> FALSE,
          confidence |-> transcription.confidence, raised |-> None]

\* The call of create_text_alignment runs to its return
AlignmentCall ==
    /\ alignment.pc = "call"
    /\ alignment' = [pc |-> "returned", transcription |-> alignment.transcription,
                     audio_duration |-> alignment.audio_duration,
                     result |-> CreateTextAlignment(alignment.transcription,
                                                    alignment.audio_duration)]
    /\ UNCHANGED <<validation_awaited, store, create, monitor, cancel, clock, remote, notified,
                   analysis, chunking>>

\* create_text_alignment is called with a transcription and the duration
\* of its chunk
InitAlignment ==
    /\ TrainerInit
    /\ validation_awaited = FALSE
    /\ analysis = NoCall
    /\ chunking = NoCall
    /\ alignment \in {[pc |-> "call", transcription |-> transcription,
                        audio_duration |-> audio_duration] :
                            transcription \in Transcriptions,
                            audio_duration \in AudioDurations}

NextAlignment == AlignmentCall

SpecAlignment == InitAlignment /\ [][NextAlignment]_vars

\* ------------------------------------------------------------------------
\* Properties
\* ------------------------------------------------------------------------
Persisted(j) == store[j] # NoRecord

\* The order pending < submitted < running < terminal of the state machine
Rank(status) ==
    CASE status = PENDING -> 0
      [] status = SUBMITTED -> 1
      [] status = RUNNING -> 2
      [] OTHER -> 3

\* cancel call c takes its step from the read of the record to its return
CancelReturns(c) == cancel[c].pc = "read" /\ cancel'[c].pc = "returned"

\* C1: once the persisted record of a job holds a terminal status, no step of
\* any coroutine changes any field of that record.
C1_TerminalRecordImmutable ==
    [][\A j \in JobIds :
          (Persisted(j) /\ store[j].status \in TerminalStatus) => store'[j] = store[j]]_vars

\* C2: a cancel_training_job call that reads a record in a terminal status
\* returns False, makes no remote cancellation call, sends no notification
\* and leaves every persisted record as it is.
C2_CancelTerminalIsNoOp ==
    [][\A c \in CancelCalls :
          (CancelReturns(c) /\ cancel[c].job # NoRecord
                /\ cancel[c].job.status \in TerminalStatus)
          => /\ cancel'[c].result = "False"
             /\ remote' = remote
             /\ notified' = notified
             /\ store' = store]_vars

\* C2 witness: the owner's cancel of a job read as succeeded has returned False
C2_Witness ==
    \E c \in CancelCalls :
        /\ cancel[c].pc = "returned"
        /\ cancel[c].job # NoRecord
        /\ cancel[c].job.status = SUCCEEDED
        /\ cancel[c].job.user_id = cancel[c].user_id
        /\ cancel[c].result = "False"

C4_CancelByNonOwnerRejected ==
    [][\A c \in CancelCalls :
          (CancelReturns(c) /\ cancel[c].job # NoRecord
                /\ cancel[c].job.user_id # cancel[c].user_id)
          => /\ cancel'[c].result = "False"
             /\ remote' = remote
             /\ notified' = notified
             /\ store' = store]_vars

\* C4 witness: a cancel by another user of a job read as running has
\* returned False
C4_Witness ==
    \E c \in CancelCalls :
        /\ cancel[c].pc = "returned"
        /\ cancel[c].job # NoRecord
        /\ cancel[c].job.status = RUNNING
        /\ cancel[c].job.user_id # cancel[c].user_id
        /\ cancel[c].result = "False"

\* C5: no write of a persisted record moves its status to an earlier place
\* in the order pending < submitted < running < terminal.
C5_StatusMonotonic ==
    [][\A j \in JobIds :
          Persisted(j) => Rank(store'[j].status) >= Rank(store[j].status)]_vars

\* The conditions the validation of create_training_job is about: utterance
\* count outside [min_utterances, max_utterances], or audio file count
\* different from transcription count
CountOutOfRange(cr) ==
    cr.audio < cr.config.min_utterances \/ cr.audio > cr.config.max_utterances
CountMismatch(cr) == cr.audio # cr.trans
Called(j) == create[j].pc # "idle"

\* C6: a create_training_job call whose inputs fail validation returns a
\* TrainingJob in status failed whose error message holds the validation
\* message, and makes no call to the remote training endpoint.
C6_ValidationFailureReturnsFailedJob ==
    \A j \in JobIds :
        (Called(j) /\ (CountOutOfRange(create[j]) \/ CountMismatch(create[j])))
        => /\ create[j].pc = "returned"
           /\ create[j].job.status = FAILED
           /\ create[j].job.error_message # None
           /\ remote[j].submit = 0

\* C7: whenever the audio file count differs from the transcription count,
\* the validation report names the mismatch with both counts, also when the
\* utterance count is out of range at the same time.
C7_ValidationReportAggregates ==
    \A j \in JobIds :
        (Called(j) /\ CountMismatch(create[j]))
        => create[j].message =
                Message("Audio file count (x) doesn't match transcription count (y)",
                        create[j].audio, create[j].trans)

Notifications(j) == notified[j].completed + notified[j].failed + notified[j].cancelled

\* C9: every transition of a job into a terminal state, whether made at
\* submission time, by a monitor poll or by a cancel, has sent a notification
\* of the matching kind, and no job gets more than one terminal notification.
C9_OneNotificationPerTerminalTransition ==
    \A j \in JobIds :
        /\ Notifications(j) <= 1
        /\ (create[j].pc = "returned" /\ create[j].job.status = FAILED)
              => notified[j].failed >= 1
        /\ (monitor[j].pc = "read" /\ monitor[j].job.status = SUCCEEDED)
              => notified[j].completed >= 1
        /\ (monitor[j].pc = "read" /\ monitor[j].job.status = FAILED)
              => notified[j].failed >= 1
        /\ (monitor[j].pc = "read" /\ monitor[j].job.status = CANCELLED)
              => notified[j].cancelled >= 1
        /\ \A c \in CancelCalls :
              (cancel[c].result = "True" /\ cancel[c].job_id = j)
              => notified[j].cancelled >= 1

\* The monitor task of job j exists and has not ended
MonitorLive(j) == monitor[j].pc \in {"read", "poll"}

\* C10: at every moment a job whose persisted status is submitted or running
\* has a live monitor task (the model starts at most one task per job_id).
C10_ActiveJobHasLiveMonitor ==
    \A j \in JobIds :
        (Persisted(j) /\ store[j].status \in {SUBMITTED, RUNNING}) => MonitorLive(j)

\* The monitor task of job j has ended
MonitorEnded(j) == monitor[j].pc \in {"exited", "crashed"}

\* C11: the monitor loop of every job eventually ends, also when the remote
\* status never becomes succeeded, failed or cancelled (the job then being
\* moved to timeout).
C11_MonitorEventuallyEnds ==
    \A j \in JobIds : MonitorLive(j) ~> MonitorEnded(j)

\* Monitor task j takes a step
MonitorSteps(j) == monitor'[j] # monitor[j]

\* Some cancel_training_job call for job j has returned True
CancelSucceeded(j) ==
    \E c \in CancelCalls : cancel[c].result = "True" /\ cancel[c].job_id = j

\* C12: a monitor iteration that reads a record in a terminal status makes
\* no remote status call, writes nothing, sends no notification, and the
\* loop ends.
C12_TerminalReadEndsLoop ==
    [][\A j \in JobIds :
          (monitor[j].pc = "read" /\ MonitorSteps(j)
                /\ Persisted(j) /\ store[j].status \in TerminalStatus)
          => /\ MonitorEnded(j)'
             /\ store' = store
             /\ remote' = remote
             /\ notified' = notified]_vars

\* C12 witness: the monitor has read its job as cancelled and left the loop
C12_Witness ==
    \E j \in JobIds :
        /\ monitor[j].pc = "exited"
        /\ monitor[j].job # NoRecord
        /\ monitor[j].job.status = CANCELLED
        /\ monitor[j].polls >= 1

\* C13: once cancel_training_job has returned True for a job, no step of
\* that job's monitor task changes the record, and the task ends.
C13_MonitorStopsAfterCancel ==
    /\ [][\A j \in JobIds :
            (CancelSucceeded(j) /\ MonitorSteps(j)) => store'[j] = store[j]]_vars
    /\ \A j \in JobIds : (CancelSucceeded(j) /\ MonitorLive(j)) ~> MonitorEnded(j)

\* The answers of a status call that are a transient failure
TransientFailure == {"exception", "http_error"}

\* C14: a poll whose status call raises or is answered with a status code
\* other than 200 leaves every persisted record unchanged, sends no
\* notification, and the monitor loop goes on to its next iteration.
C14_TransientPollFailureDeferred ==
    [][\A j \in JobIds :
          (monitor[j].pc = "poll" /\ MonitorSteps(j)
                /\ monitor'[j].answer.kind \in TransientFailure)
          => /\ store' = store
             /\ notified' = notified
             /\ monitor'[j].pc = "read"]_vars

\* C14 witness: after a poll answered with an error status the monitor has
\* read the record again and is about to poll again
C14_Witness ==
    \E j \in JobIds :
        /\ monitor[j].pc = "poll"
        /\ monitor[j].polls >= 1
        /\ monitor[j].answer.kind = "http_error"
        /\ store[j] = monitor[j].job

\* C15: a monitor loop ended by an unexpected error has left its job
\* persisted as failed with the error text.
C15_CrashMarksJobFailed ==
    \A j \in JobIds :
        monitor[j].pc = "crashed"
        => /\ store[j].status = FAILED
           /\ store[j].error_message # None

\* The remote status vocabulary
KnownAzureStatuses == {"NotStarted", "Running", "Succeeded", "Failed", "Cancelled"}

\* C16: no remote status outside the known vocabulary is mapped to pending:
\* a poll answered with such a status does not leave the job pending.
C16_UnknownStatusNotPending ==
    \A j \in JobIds :
        (monitor[j].pc = "read" /\ monitor[j].answer.kind = "ok"
              /\ monitor[j].answer.status \notin KnownAzureStatuses)
        => monitor[j].job.status # PENDING

\* C17: a cancel_training_job call that cancels the job makes the remote
\* cancellation call exactly when the record it read holds a remote handle.
C17_RemoteCancelIffHandle ==
    [][\A c \in CancelCalls :
          (CancelReturns(c) /\ cancel'[c].result = "True")
          => LET j == cancel[c].job_id
             IN  IF cancel[c].job.azure_job_id # None
                 THEN remote'[j].cancel = remote[j].cancel + 1
                 ELSE remote'[j].cancel = remote[j].cancel]_vars

\* C18: a job the monitor moved to a terminal status has completed_at set,
\* and a started_at or completed_at that is set is never changed or cleared
\* by a later poll or cancel.
C18_TimestampsSetOnce ==
    [][\A j \in JobIds :
          /\ (monitor'[j].pc = "read" /\ monitor'[j].answer.kind = "ok"
                    /\ monitor'[j].job.status \in TerminalStatus)
                => monitor'[j].job.completed_at # NoTime
          /\ (Persisted(j) /\ (MonitorSteps(j) \/ cancel' # cancel))
                => /\ store[j].started_at # NoTime
                        => store'[j].started_at = store[j].started_at
                   /\ store[j].completed_at # NoTime
                        => store'[j].completed_at = store[j].completed_at]_vars

\* C19: a persisted record has model_id or voice_id set only in status
\* succeeded.
C19_ModelIdsOnlyOnSuccess ==
    \A j \in JobIds :
        (Persisted(j) /\ (store[j].model_id # None \/ store[j].voice_id # None))
        => store[j].status = SUCCEEDED

\* C19 witness: a poll stored the job as succeeded with its model and voice
\* ids, and a cancel that had read the record before stored it as cancelled:
\* the persisted record has neither id
C19_Witness ==
    \E j \in JobIds :
        /\ monitor[j].job # NoRecord
        /\ monitor[j].job.status = SUCCEEDED
        /\ monitor[j].job.model_id # None
        /\ store[j].status = CANCELLED
        /\ store[j].model_id = None
        /\ store[j].voice_id = None

\* The step is a step of an operation on job j: of the create_training_job
\* call that made it, of its monitor task, or of a cancel_training_job call
\* for it
OperatesOn(j) ==
    \/ create'[j] # create[j]
    \/ monitor'[j] # monitor[j]
    \/ \E c \in CancelCalls : cancel'[c] # cancel[c] /\ cancel'[c].job_id = j

\* C20: a step of an operation on one job (a submission that fails, a poll
\* that fails or raises, a monitor crash, a cancel) changes no field of
\* another job's persisted record and leaves the other job's monitor loop as
\* it was.
C20_OtherJobsUntouched ==
    [][\A j \in TwoJobs, k \in TwoJobs :
          (j # k /\ OperatesOn(j))
          => /\ store'[k] = store[k]
             /\ monitor'[k] = monitor[k]
             /\ notified'[k] = notified[k]]_vars

\* C20 witness: one job's monitor has crashed after a failed poll and the
\* job was cancelled, while the other job is still submitted with its
\* monitor loop alive after a poll
C20_Witness ==
    \E j \in TwoJobs, k \in TwoJobs :
        /\ j # k
        /\ monitor[j].pc = "crashed"
        /\ monitor[j].answer.kind \in TransientFailure
        /\ CancelSucceeded(j)
        /\ store[k].status = SUBMITTED
        /\ MonitorLive(k)
        /\ monitor[k].polls >= 1

\* The conditions of the acceptance gate that the metrics violate
ViolatedConditions(metrics) ==
    (IF metrics.duration < 1 THEN {"too_short"} ELSE {})
    \cup (IF metrics.duration > 30 THEN {"too_long"} ELSE {})
    \cup (IF metrics.snr_db < 15 THEN {"snr_too_low"} ELSE {})
    \cup (IF metrics.clipping_percentage > 5 THEN {"too_much_clipping"} ELSE {})
    \cup (IF metrics.silence_percentage > 10 THEN {"too_much_silence"} ELSE {})
    \cup (IF metrics.quality_score < 60 THEN {"quality_score_too_low"} ELSE {})

\* C21: the gate rejects exactly when a condition is violated (duration
\* outside 1..30 s, snr_db < 15, clipping > 5, silence > 10, score < 60), and
\* the reasons it returns are one for each violated condition and none for a
\* satisfied one.
C21_GateReportsEveryViolation ==
    analysis.pc = "returned"
    => /\ analysis.is_valid = (ViolatedConditions(analysis.metrics) = {})
       /\ {analysis.errors[i] : i \in 1..Len(analysis.errors)}
                = ViolatedConditions(analysis.metrics)
       /\ Len(analysis.errors) = Cardinality(ViolatedConditions(analysis.metrics))

\* C21 witness: a buffer rejected for four reasons at once
C21_Witness ==
    /\ analysis.pc = "returned"
    /\ ~analysis.is_valid
    /\ analysis.errors = <<"too_long", "snr_too_low", "too_much_clipping", "quality_score_too_low">>

\* clamp(lo, hi, x)
Clamp(lo, hi, x) == Max(lo, Min(hi, x))

\* The clip of the scenario: 6 s, snr_db 20, no clipping, 2 percent silence
ScenarioAnalysed ==
    /\ analysis.pc # "call"
    /\ analysis.metrics.duration = 6
    /\ analysis.metrics.snr_db = 20
    /\ analysis.metrics.clipping_percentage = 0
    /\ analysis.metrics.silence_percentage = 2

\* The three clamped terms of the score
ClampedTerms(metrics) ==
    Clamp(0, 40, (metrics.snr_db - 10) * 2)
    + Clamp(0, 25, 25 - metrics.clipping_percentage * 5)
    + Clamp(0, 20, 20 - metrics.silence_percentage * 2)

\* C22 as stated: the score is the sum of the three clamped terms and a
\* duration term, and the 6 s clip with snr_db 20, clipping 0 and silence 2
\* scores 76 and has quality level good.
C22_ScenarioIsGood ==
    /\ analysis.pc # "call"
            => analysis.metrics.quality_score - ClampedTerms(analysis.metrics) \in {5, 10, 15}
    /\ ScenarioAnalysed
            => /\ analysis.metrics.quality_score = 76
               /\ analysis.metrics.quality_level = GOOD

\* C22 amended: the same, with the level the thresholds 90/80/70/60 give:
\* the clip scores 76 and has quality level acceptable; good is the level of
\* the scores 80..89.
C22_ScenarioIsAcceptable ==
    /\ analysis.pc # "call"
            => /\ analysis.metrics.quality_score - ClampedTerms(analysis.metrics) \in {5, 10, 15}
               /\ analysis.metrics.quality_level = GOOD
                    <=> (80 <= analysis.metrics.quality_score
                            /\ analysis.metrics.quality_score < 90)
    /\ ScenarioAnalysed
            => /\ analysis.metrics.quality_score = 20 + 25 + 16 + 15
               /\ analysis.metrics.quality_level = ACCEPTABLE

\* C22 witness: the clip of the scenario has been analysed and accepted
C22_Witness ==
    /\ ScenarioAnalysed
    /\ analysis.pc = "returned"
    /\ analysis.is_valid

\* C23: with the other three inputs fixed, a lower snr_db never gives a
\* higher score and a higher clipping percentage never gives a higher
\* score; the score is within 0..100.
C23_ScoreMonotonicAndBounded ==
    analysis.pc # "call"
    => LET m == analysis.metrics
       IN  /\ \A lower \in SnrValues :
                 lower <= m.snr_db
                 => CalculateQualityScore(lower, m.clipping_percentage,
                                          m.silence_percentage, m.duration) <= m.quality_score
           /\ \A higher \in ClippingValues :
                 higher >= m.clipping_percentage
                 => CalculateQualityScore(m.snr_db, higher,
                                          m.silence_percentage, m.duration) <= m.quality_score
           /\ 0 <= m.quality_score
           /\ m.quality_score <= 100

\* C23 witness: the highest score, reached with an SNR beyond the cap
C23_Witness ==
    /\ analysis.pc # "call"
    /\ analysis.metrics.snr_db > 30
    /\ analysis.metrics.quality_score = 100

\* chunk_audio has returned for a recording at least one chunk long
ChunkedWholeRecording ==
    /\ chunking.pc = "returned"
    /\ chunking.samples >= chunking.chunk_samples

\* C24 as stated: for a recording of duration D >= C, chunk_audio emits
\* floor((D - C) / (C * (1 - O))) + 1 chunks.
C24_ChunkCountFullWindows ==
    ChunkedWholeRecording
    => Len(chunking.chunks)
          = (chunking.samples - chunking.chunk_samples) \div chunking.step_samples + 1

\* C24 amended: chunk_audio emits one chunk for every start offset whose
\* window, cut at the end of the recording, is at least half a chunk long
\* (a window that holds a sample, when half a chunk is less than a sample):
\* floor((D - C/2) / (C * (1 - O))) + 1 chunks.
C24_ChunkCountHalfWindows ==
    ChunkedWholeRecording
    => Len(chunking.chunks)
          = (chunking.samples - Max(1, chunking.chunk_samples \div 2))
                \div chunking.step_samples + 1

\* C24 witness: a recording of one and a half chunks without overlap is cut
\* into two chunks, the second one half a chunk long
C24_Witness ==
    /\ ChunkedWholeRecording
    /\ chunking.chunk_samples = 4
    /\ chunking.step_samples = 4
    /\ chunking.samples = 6
    /\ Len(chunking.chunks) = 2
    /\ chunking.chunks[2].duration = 2

\* The end of the part of the recording the emitted chunks cover
CoveredEnd == IF chunking.chunks = <<>> THEN 0 ELSE chunking.chunks[Len(chunking.chunks)].end_time

\* C25: the first chunk starts at 0, every later chunk starts no later than
\* the end of the chunk before it and ends no earlier than it, and what is
\* left uncovered at the end of the recording is shorter than half a chunk.
C25_ChunksCoverWithoutGaps ==
    chunking.pc = "returned"
    => /\ chunking.chunks # <<>> => chunking.chunks[1].start_time = 0
       /\ \A i \in 2..Len(chunking.chunks) :
              /\ chunking.chunks[i].start_time <= chunking.chunks[i - 1].end_time
              /\ chunking.chunks[i].end_time >= chunking.chunks[i - 1].end_time
              /\ chunking.chunks[i].start_time > chunking.chunks[i - 1].start_time
       /\ 2 * (chunking.samples - CoveredEnd) < chunking.chunk_samples

\* C25 witness: chunks that overlap, and a tail of the recording that is
\* left uncovered
C25_Witness ==
    /\ chunking.pc = "returned"
    /\ Len(chunking.chunks) >= 2
    /\ chunking.step_samples < chunking.chunk_samples
    /\ CoveredEnd < chunking.samples

\* The windows the loop of line 168 went through
WindowsVisited == (chunking.samples + chunking.step_samples - 1) \div chunking.step_samples

\* C26: the i-th emitted chunk, counting from 0 in increasing start time,
\* has chunk id i, also when a window was skipped.
C26_ChunkIdsSequential ==
    chunking.pc \in {"loop", "returned"}
    => /\ \A i \in 1..Len(chunking.chunks) : chunking.chunks[i].chunk_id = i - 1
       /\ \A i \in 2..Len(chunking.chunks) :
              chunking.chunks[i].start_time > chunking.chunks[i - 1].start_time
       /\ chunking.chunk_id = Len(chunking.chunks)

\* C26 witness: three chunks were emitted and a too-short window was skipped
C26_Witness ==
    /\ chunking.pc = "returned"
    /\ Len(chunking.chunks) >= 3
    /\ WindowsVisited > Len(chunking.chunks)

\* create_text_alignment has returned for a transcription without word
\* timings
AlignedWithoutTimings ==
    /\ alignment.pc = "returned"
    /\ alignment.transcription.word_timings = <<>>

\* C27: for a transcription without word timings the result has
\* alignment_score 0.5 and is_aligned false, whatever the text, the
\* confidence and the chunk duration.
C27_FallbackScoreFixed ==
    AlignedWithoutTimings
    => /\ 2 * alignment.result.alignment_score.num = alignment.result.alignment_score.den
       /\ alignment.result.is_aligned = FALSE

\* C27 witness: the fallback for a confident transcription of three words
\* in a chunk of 3 s
C27_Witness ==
    /\ AlignedWithoutTimings
    /\ Len(alignment.transcription.text) = 3
    /\ alignment.transcription.confidence = 9
    /\ alignment.audio_duration = 180
    /\ Len(alignment.result.word_alignments) = 3
    /\ alignment.result.word_alignments[3].end_time = 180

\* create_text_alignment has returned for a transcription with word timings
\* and a chunk of positive duration
AlignedWithTimings ==
    /\ alignment.pc = "returned"
    /\ alignment.transcription.word_timings # <<>>
    /\ alignment.audio_duration > 0

\* last_word_end - first_word_start of the transcription
WordSpan ==
    LET words == alignment.transcription.word_timings
    IN  words[Len(words)].end_time - words[1].start_time

\* The inter-word gaps longer than 0.5 s of the transcription
LongGaps ==
    LET words == alignment.transcription.word_timings
    IN  Cardinality({i \in 2..Len(words) :
                        2 * (words[i].start_time - words[i - 1].end_time) > TicksPerSecond})

\* C28 as stated: with word timings alignment_score = coverage - gap_penalty
\* with coverage = (last_word_end - first_word_start) / chunk_duration and
\* gap_penalty = min(0.3, 0.1 * gaps longer than 0.5 s); the score is within
\* [0,1]; is_aligned holds exactly when the score is above 0.8.
C28_ScoreIsCoverageMinusPenalty ==
    AlignedWithTimings
    => LET score == alignment.result.alignment_score
           d == alignment.audio_duration
       IN  /\ score.num * (10 * d) = score.den * (10 * WordSpan - Min(3, LongGaps) * d)
           /\ 0 <= score.num
           /\ score.num <= score.den
           /\ alignment.result.is_aligned <=> (10 * score.num > 8 * score.den)

\* C28 amended: with word timings and a positive chunk duration
\* alignment_score = max(0, min(1, coverage) - gap_penalty): the coverage is
\* capped at 1 and the difference is floored at 0; the score is within
\* [0,1]; is_aligned holds exactly when the score is above 0.8.
C28_ScoreIsClampedCoverageMinusPenalty ==
    AlignedWithTimings
    => LET score == alignment.result.alignment_score
           d == alignment.audio_duration
       IN  /\ score.num * (10 * d)
                 = score.den * Max(0, Min(10 * d, 10 * WordSpan) - Min(3, LongGaps) * d)
           /\ 0 <= score.num
           /\ score.num <= score.den
           /\ alignment.result.is_aligned <=> (10 * score.num > 8 * score.den)

\* C28 witness: five words with four long gaps between them in a chunk of
\* 3 s: the penalty is at its cap of 0.3 and the score is 2/3
C28_Witness ==
    /\ AlignedWithTimings
    /\ LongGaps = 4
    /\ alignment.audio_duration = 180
    /\ WordSpan = 174
    /\ 3 * alignment.result.alignment_score.num = 2 * alignment.result.alignment_score.den
    /\ ~alignment.result.is_aligned

\* C29: cancel_training_job returns True only when the call has persisted
\* the job as cancelled, and when it returns False (not found, not the
\* owner, not cancellable, or a collaborator raised) the persisted record is
\* as it was before.
C29_CancelResultMatchesRecord ==
    [][\A c \in CancelCalls :
          (cancel[c].pc # "returned" /\ cancel'[c].pc = "returned")
          => LET j == cancel'[c].job_id
             IN  /\ cancel'[c].result = "True"
                      => /\ store'[j].status = CANCELLED
                         /\ store'[j] = cancel'[c].stored
                 /\ cancel'[c].result = "False" => store'[j] = store[j]]_vars

\* The message of a job that failed at submission time (line 161)
SubmissionFailedMessage == "Failed to submit to Azure Speech Service"

\* C30: a persisted job in status submitted or running has its remote job
\* handle recorded, a job that failed at submission time has none, and a
\* monitor poll on a record without a handle changes no record.
C30_ActiveJobHasHandle ==
    [][\A j \in JobIds :
          /\ (Persisted(j) /\ store[j].status \in {SUBMITTED, RUNNING})'
                => store'[j].azure_job_id # None
          /\ (Persisted(j) /\ store[j].status = FAILED
                    /\ store[j].error_message = SubmissionFailedMessage)'
                => store'[j].azure_job_id = None
          /\ (monitor[j].pc = "poll" /\ MonitorSteps(j)
                    /\ monitor[j].job.azure_job_id = None)
                => store' = store]_vars

\* C30 witness: a poll has stored the job as running, with the handle the
\* submission recorded, and the monitor is about to poll again
C30_Witness ==
    \E j \in JobIds :
        /\ store[j].status = RUNNING
        /\ store[j].azure_job_id = AzureJobId
        /\ monitor[j].pc = "poll"
        /\ monitor[j].polls >= 1

====
